---- MODULE Spec2Model ----
(***************************************************************************)
(* A model of bot.py, the comment-moderation bot: the handlers             *)
(* handle_comment, handle_private_message, start and error_handler, the    *)
(* classifier (retry, call_model_stack, check_spam) and the redaction      *)
(* get_comment_info.  One update is handled at a time; every await of the  *)
(* source (a transport call) and every backend generation call is a step.  *)
(***************************************************************************)
EXTENDS Integers, Sequences, FiniteSets, TLC

VARIABLES
    alive,        \* the process runs (FALSE after exit(1))
    pc,           \* position of the task that handles the current update
    update,       \* the update being handled
    user_dict,    \* handler local: sender record returned by get_comment_info
    comment_dict, \* handler local: comment record returned by get_comment_info
    attempt,      \* number of iterations the retry wrapper's loop has begun
    idx,          \* call_model_stack: position in the stack (1-based), 0 outside a walk
    calls,        \* generation calls issued for the current update, in order
    response,     \* text of the response call_model_stack returned
    result,       \* check_spam's parsed result
    sent,         \* transport calls issued for the current update, in order
    error,        \* the exception travelling to / held by the error handler
    log,          \* logging.error / logging.info lines of the current update
    probe         \* the health check server's thread: the last GET and its answer

vars == <<alive, pc, update, user_dict, comment_dict, attempt, idx, calls,
          response, result, sent, error, log, probe>>

-----------------------------------------------------------------------------
(* Configuration read from the environment at import time.                 *)

ADMIN_ID == 1

TARGET_GROUP_ID == 2

EXTRA_WHITELIST_ID == 3

WHITELIST_IDS == {ADMIN_ID, TARGET_GROUP_ID} \cup {EXTRA_WHITELIST_ID}

\* ids that are in no configuration variable
STRANGER_ID == EXTRA_WHITELIST_ID + 1

CHANNEL_ID == EXTRA_WHITELIST_ID + 2

OTHER_GROUP_ID == EXTRA_WHITELIST_ID + 3

\* retry's default max_retries
max_retries == 3

\* call_model_stack's default stack
stack == <<"gemini-1.5-pro", "gemini-1.5-flash-002">>

-----------------------------------------------------------------------------
(* Python values.  A dict is a function from its keys; None is NoneV.      *)

NoneV == [t |-> "None"]

\* F(v), with v evaluated once however often F uses its argument
With(v, F(_)) == CHOOSE r \in {F(x) : x \in {v}} : TRUE

\* d.pop(k, None) and `del d[k]`, as the dict that is left
Pop(d, k) == With(d, LAMBDA dd : [x \in DOMAIN dd \ {k} |-> dd[x]])

\* d[k] = v, as the dict that results
Put(d, k, v) == (k :> v) @@ d

Has(d, k) == k \in DOMAIN d

EmptyDict == [x \in {} |-> NoneV]

(* JSON values as json.loads builds them. *)
JNull == [t |-> "null"]

JBool(b) == [t |-> "bool", b |-> b]

JInt(n) == [t |-> "int", n |-> n]

JStr(s) == [t |-> "str", s |-> s]

JList == [t |-> "list"]

JDict(d) == [t |-> "dict", d |-> d]

\* a test for presence in place of the truth value: `is not None`
TruthyIsNotNone(v) == v.t # "null"

\* Python truth value of a parsed JSON value (what `if result["spam"]:` tests)
Truthy(v) ==
    CASE v.t = "null" -> FALSE
      [] v.t = "bool" -> v.b
      [] v.t = "int"  -> v.n # 0
      [] v.t = "str"  -> v.s # ""
      [] v.t = "list" -> FALSE
      [] v.t = "dict" -> DOMAIN v.d # {}

-----------------------------------------------------------------------------
(* Model output.  A text is a sequence of tokens: punctuation, white       *)
(* space, bare words (true, null, 0, prose) and quoted strings.            *)

Tok(k, v) == [k |-> k, v |-> v]

P(c) == Tok("punct", c)

W == Tok("ws", " ")

NL == Tok("ws", "\n")

L(w) == Tok("word", w)

S(s) == Tok("str", s)

TextNotSpam == <<P("{"), S("spam"), P(":"), W, L("false"), P("}")>>

TextSpam ==
    <<P("{"), S("why"), P(":"), W, S("bait link"), P(","), W,
      S("spam"), P(":"), W, L("true"), P("}")>>

TextSpamCapital ==
    <<W, P("{"), S("Spam"), P(":"), W, L("True"), P(","), W,
      S("Why"), P(":"), W, S("Bait Link"), P("}"), NL>>

TextSpamNull == <<P("{"), S("spam"), P(":"), W, L("null"), P("}")>>

TextSpamZero == <<P("{"), S("spam"), P(":"), W, L("0"), P("}")>>

TextSpamString == <<P("{"), S("spam"), P(":"), W, S("no"), P("}")>>

TextNoSpamKey == <<P("{"), S("why"), P(":"), W, S("unsure"), P("}")>>

TextProse == <<L("Not"), W, L("spam")>>

TextBareTrue == <<L("true")>>

TextList == <<P("["), P("]")>>

TextEmpty == <<>>

\* the texts a backend is taken to answer with
Texts ==
    {TextNotSpam, TextSpam, TextSpamCapital, TextSpamNull, TextSpamZero,
     TextSpamString, TextNoSpamKey, TextProse, TextBareTrue, TextList,
     TextEmpty}

\* str.lower on the content of one token
LowerWord(w) ==
    CASE w = "True" -> "true"
      [] w = "Not" -> "not"
      [] w = "Spam" -> "spam"
      [] w = "Why" -> "why"
      [] w = "Bait Link" -> "bait link"
      [] OTHER -> w

lower(text) ==
    With(text, LAMBDA tx : [i \in DOMAIN tx |-> Tok(tx[i].k, LowerWord(tx[i].v))])

RECURSIVE strip(_)
strip(text) ==
    IF text = <<>> THEN text
    ELSE IF Head(text).k = "ws" THEN strip(Tail(text))
    ELSE IF text[Len(text)].k = "ws" THEN strip(SubSeq(text, 1, Len(text) - 1))
    ELSE text

Ok(v) == [ok |-> TRUE, v |-> v]

Raises(exc) == [ok |-> FALSE, exc |-> exc]

IsScalar(tok) ==
    \/ tok.k = "str"
    \/ tok.k = "word" /\ tok.v \in {"true", "false", "null", "0", "1"}

ScalarValue(tok) ==
    CASE tok.k = "str" -> JStr(tok.v)
      [] tok.v = "true" -> JBool(TRUE)
      [] tok.v = "false" -> JBool(FALSE)
      [] tok.v = "null" -> JNull
      [] tok.v = "0" -> JInt(0)
      [] tok.v = "1" -> JInt(1)

\* the members of an object, after its opening brace; a repeated key keeps
\* the last value
RECURSIVE Members(_, _)
Members(rest, acc) ==
    With(rest, LAMBDA toks :
        IF /\ Len(toks) >= 4
           /\ toks[1].k = "str"
           /\ toks[2] = P(":")
           /\ IsScalar(toks[3])
        THEN With(Put(acc, toks[1].v, ScalarValue(toks[3])), LAMBDA d :
                 IF toks[4] = P("}")
                 THEN IF Len(toks) = 4 THEN Ok(JDict(d))
                      ELSE Raises("JSONDecodeError")
                 ELSE IF toks[4] = P(",")
                 THEN Members(SubSeq(toks, 5, Len(toks)), d)
                 ELSE Raises("JSONDecodeError"))
        ELSE Raises("JSONDecodeError"))

\* json.loads(text, strict=False): white space between tokens is skipped
json_loads(text) ==
    With(SelectSeq(text, LAMBDA tk : tk.k # "ws"), LAMBDA toks :
        IF Len(toks) = 1 /\ IsScalar(toks[1]) THEN Ok(ScalarValue(toks[1]))
        ELSE IF toks = <<P("["), P("]")>> THEN Ok(JList)
        ELSE IF toks = <<P("{"), P("}")>> THEN Ok(JDict(EmptyDict))
        ELSE IF Len(toks) >= 1 /\ toks[1] = P("{")
        THEN Members(Tail(toks), EmptyDict)
        ELSE Raises("JSONDecodeError"))

\* check_spam, lines 107-108: response.text.strip().lower(), then json.loads.
\* A response without a usable candidate raises ValueError on .text.
Blocked == [t |-> "blocked"]

TextResponse(text) == [t |-> "text", text |-> text]

Responses == {Blocked} \cup {TextResponse(x) : x \in Texts}

\* the text parsed as it came, without strip() and lower()
ParseResponseAsIs(resp) ==
    IF resp.t = "blocked" THEN Raises("ValueError")
    ELSE json_loads(resp.text)

ParseResponse(resp) ==
    IF resp.t = "blocked" THEN Raises("ValueError")
    ELSE json_loads(lower(strip(resp.text)))

\* result["spam"] as handle_comment evaluates it, line 229
SpamField(res) ==
    IF res.t # "dict" THEN Raises("TypeError")
    ELSE IF ~Has(res.d, "spam") THEN Raises("KeyError")
    ELSE Ok(res.d["spam"])

-----------------------------------------------------------------------------
(* Updates delivered by the transport.  edited is TRUE for an update that  *)
(* carries an edited message: update.message is then None, while           *)
(* effective_chat is still set.  sender_chat is 0 when the message has     *)
(* none; text, caption and reply texts are kept by their length, -1 when   *)
(* the field is absent.                                                    *)

NoOrigin == [t |-> "none"]

HiddenOrigin == [t |-> "hidden_user"]

UserOrigin(id) == [t |-> "user", id |-> id]

NoReply == [t |-> "none"]

Reply(date, caption, text) ==
    [t |-> "message", date |-> date, caption |-> caption, text |-> text]

\* length of a short comment text
ShortLen == 5

CommentDate == 100

PostDate == 98

Chats ==
    {[id |-> TARGET_GROUP_ID, type |-> "supergroup"],
     [id |-> OTHER_GROUP_ID, type |-> "supergroup"],
     [id |-> ADMIN_ID, type |-> "private"],
     [id |-> STRANGER_ID, type |-> "private"]}

\* In a private chat the sender is the user the chat is with, and nobody
\* posts as a channel; an edited message is not taken as a command.
Updates ==
    {u \in [chat : Chats,
            command : BOOLEAN,
            edited : BOOLEAN,
            message_id : {10},
            from_id : {ADMIN_ID, EXTRA_WHITELIST_ID, STRANGER_ID},
            is_premium : BOOLEAN,
            sender_chat : {0, TARGET_GROUP_ID, CHANNEL_ID},
            forward_origin : {NoOrigin, HiddenOrigin,
                              UserOrigin(EXTRA_WHITELIST_ID),
                              UserOrigin(STRANGER_ID)},
            date : {CommentDate},
            text : {ShortLen},
            reply_to_message : {NoReply, Reply(PostDate, ShortLen, -1)}] :
        /\ u.chat.type = "private" => u.from_id = u.chat.id /\ u.sender_chat = 0
        /\ u.edited => ~u.command}

NoUpdate == [t |-> "None"]

\* User.to_dict(): None fields are left out
UserDict(id, premium) ==
    LET base == [k \in {"id", "is_bot", "first_name"} |->
                    CASE k = "id" -> id
                      [] k = "is_bot" -> FALSE
                      [] k = "first_name" -> "name"]
    IN  IF premium THEN Put(base, "is_premium", TRUE) ELSE base

\* Chat.to_dict()
ChatDict(id, type) ==
    [k \in {"id", "type"} |-> IF k = "id" THEN id ELSE type]

\* Message.to_dict() of the replied-to post
ReplyDict(r) ==
    LET base == [k \in {"message_id", "date", "chat"} |->
                    CASE k = "message_id" -> 9
                      [] k = "date" -> r.date
                      [] k = "chat" -> ChatDict(TARGET_GROUP_ID, "supergroup")]
        c == IF r.caption >= 0 THEN Put(base, "caption", r.caption) ELSE base
    IN  IF r.text >= 0 THEN Put(c, "text", r.text) ELSE c

\* update.message.to_dict()
MessageDict(u) ==
    LET flags == {"group_chat_created", "channel_chat_created",
                  "delete_chat_photo", "supergroup_chat_created"}
        base == [k \in {"message_id", "date", "chat"} \cup flags |->
                    CASE k = "message_id" -> u.message_id
                      [] k = "date" -> u.date
                      [] k = "chat" -> ChatDict(u.chat.id, u.chat.type)
                      [] OTHER -> FALSE]
        a == Put(base, "from", UserDict(u.from_id, u.is_premium))
        b == IF u.sender_chat # 0
             THEN Put(a, "sender_chat", ChatDict(u.sender_chat, "channel"))
             ELSE a
        c == IF u.forward_origin.t # "none"
             THEN Put(b, "forward_origin", u.forward_origin)
             ELSE b
        d == IF u.text >= 0 THEN Put(c, "text", u.text) ELSE c
    IN  IF u.reply_to_message.t # "none"
        THEN Put(d, "reply_to_message", ReplyDict(u.reply_to_message))
        ELSE d

-----------------------------------------------------------------------------
(* get_comment_info                                                        *)

\* truncate(text, max_length) on the length of the text: the cut text
\* carries the three characters of "..."
truncate(len, max_length) == IF len > max_length THEN max_length + 3 ELSE len

\* a resolution that takes the forward origin's user whatever the flag says
ResolveSenderIgnoresFlag(u, treat_forward_origin_as_sender) ==
    IF u.edited THEN Raises("AttributeError")
    ELSE IF u.forward_origin.t = "user"
    THEN Ok(UserDict(u.forward_origin.id, FALSE))
    ELSE IF u.sender_chat # 0 THEN Ok(ChatDict(u.sender_chat, "channel"))
    ELSE Ok(UserDict(u.from_id, u.is_premium))

\* lines 121-132: the sender.  When update.message is None both hasattr
\* tests are false and update.message.from_user raises AttributeError.
ResolveSender(u, treat_forward_origin_as_sender) ==
    IF u.edited THEN Raises("AttributeError")
    ELSE IF treat_forward_origin_as_sender /\ u.forward_origin.t = "user"
    THEN Ok(UserDict(u.forward_origin.id, FALSE))
    ELSE IF u.sender_chat # 0 THEN Ok(ChatDict(u.sender_chat, "channel"))
    ELSE Ok(UserDict(u.from_id, u.is_premium))

delete_fields ==
    {"link_preview_options", "chat", "group_chat_created",
     "channel_chat_created", "delete_chat_photo", "supergroup_chat_created",
     "message_id", "forward_origin", "forward_date", "forward_from",
     "forward_from_chat", "from", "entities", "message_thread_id"}

\* lines 137-154
StripFields(d) ==
    With(d, LAMBDA dd : [k \in DOMAIN dd \ delete_fields |-> dd[k]])

\* lines 156-158
EmbedSender(d, user) == Put(d, "from_user", Pop(Pop(user, "is_bot"), "id"))

\* lines 161-178, on the reply_to_message dict: the caption and the text are
\* cut to 500, the caption goes when there is a text, and then every key but
\* caption and date is dropped
TrimReply(reply) ==
    With(reply, LAMBDA r :
        With(IF Has(r, "caption")
             THEN Put(r, "caption", truncate(r["caption"], 500))
             ELSE r, LAMBDA a :
            With(IF Has(a, "text")
                 THEN Put(Pop(a, "caption"), "text", truncate(a["text"], 500))
                 ELSE a, LAMBDA b :
                [k \in DOMAIN b \cap {"caption", "date"} |-> b[k]])))

\* dict.get(k) is truthy for the values the comment record holds
Truthful(d, k) ==
    /\ Has(d, k)
    /\ IF k = "date" THEN d[k] # 0 ELSE DOMAIN d[k] # {}

\* lines 160-178
TrimReplyContext(cd) ==
    With(cd, LAMBDA d :
        IF Truthful(d, "reply_to_message")
        THEN Put(d, "reply_to_message", TrimReply(d["reply_to_message"]))
        ELSE d)

\* a delay counted from the comment back to the post
AddCommentDelaySwapped(cd) ==
    With(cd, LAMBDA d :
        IF Truthful(d, "reply_to_message") /\ Truthful(d, "date")
        THEN Put(d, "comment_delay_seconds",
                 d["reply_to_message"]["date"] - d["date"])
        ELSE d)

\* lines 180-182
AddCommentDelay(cd) ==
    With(cd, LAMBDA d :
        IF Truthful(d, "reply_to_message") /\ Truthful(d, "date")
        THEN Put(d, "comment_delay_seconds",
                 d["date"] - d["reply_to_message"]["date"])
        ELSE d)

\* lines 183-184
TruncateText(cd) ==
    With(cd, LAMBDA d :
        IF Has(d, "text") THEN Put(d, "text", truncate(d["text"], 1000)) ELSE d)

\* lines 135-185
RedactComment(u, user) ==
    TruncateText(AddCommentDelay(TrimReplyContext(
        EmbedSender(StripFields(MessageDict(u)), user))))

get_comment_info(u, treat_forward_origin_as_sender) ==
    With(ResolveSender(u, treat_forward_origin_as_sender), LAMBDA who :
        IF who.ok
        THEN [ok |-> TRUE, user_dict |-> who.v,
              comment_dict |-> RedactComment(u, who.v)]
        ELSE who)

-----------------------------------------------------------------------------
(* The state machine                                                       *)

NoError == "none"

\* isinstance(context.error, TelegramError), line 314
\* a check that takes every exception for a transport failure
IsAnyError(exc) == exc # "none"

IsTelegramError(exc) == exc = "TelegramError"

LogLine(level, msg) == [level |-> level, msg |-> msg]

\* prompt_template.format(comment_dict=json.dumps(comment_dict)), lines 103-105
Prompt(cd) == [template |-> "Comment: {comment_dict} Answer:", comment_dict |-> cd]

\* context.bot.send_message as send_to calls it, lines 188-206
SendMessage(chat_id, content, ok) ==
    [op |-> "send_message", chat_id |-> chat_id, content |-> content, ok |-> ok]

\* context.bot.forward_message, lines 243-247
ForwardMessage(chat_id, from_chat_id, message_id, ok) ==
    [op |-> "forward_message", chat_id |-> chat_id,
     content |-> [from_chat_id |-> from_chat_id, message_id |-> message_id],
     ok |-> ok]

\* update.message.reply_text: a send_message to the chat of the update
ReplyText(u, text, ok) == SendMessage(u.chat.id, <<text>>, ok)

\* no GET has reached the health check server
NoProbe == [state |-> "none", status |-> 0, content_type |-> "", body |-> ""]

Init ==
    /\ alive = TRUE
    /\ pc = "idle"
    /\ update = NoUpdate
    /\ user_dict = NoneV
    /\ comment_dict = NoneV
    /\ attempt = 0
    /\ idx = 0
    /\ calls = <<>>
    /\ response = NoneV
    /\ result = NoneV
    /\ sent = <<>>
    /\ error = NoError
    /\ log = <<>>
    /\ probe = NoProbe

\* main, lines 339-346: the first handler whose filter matches gets the update
Dispatch(u) ==
    IF u.command THEN "start"
    ELSE IF u.chat.type \in {"group", "supergroup"} THEN "handle_comment"
    ELSE "handle_private_message"

\* Application.run_polling hands the next update to its handler
Receive(u) ==
    /\ alive
    /\ pc = "idle"
    /\ update' = u
    /\ pc' = Dispatch(u)
    /\ UNCHANGED <<alive, user_dict, comment_dict, attempt, idx, calls,
                   response, result, sent, error, log>>
    /\ UNCHANGED probe

\* the handler's task ends: its locals are dropped and the application
\* polls for the next update
Return ==
    /\ alive
    /\ pc = "done"
    /\ pc' = "idle"
    /\ update' = NoUpdate
    /\ user_dict' = NoneV
    /\ comment_dict' = NoneV
    /\ attempt' = 0
    /\ idx' = 0
    /\ calls' = <<>>
    /\ response' = NoneV
    /\ result' = NoneV
    /\ sent' = <<>>
    /\ error' = NoError
    /\ log' = <<>>
    /\ UNCHANGED alive
    /\ UNCHANGED probe

\* an exception leaves the handler: the application passes it to error_handler
\* (main, line 347)
Raise(exc) ==
    /\ error' = exc
    /\ pc' = "error_handler"

\* handle_comment's scope guard, line 210
InMonitoredGroup(u) == u.chat.id = TARGET_GROUP_ID

\* a guard that lets every private chat through
InAnyPrivateChat(u) == u.chat.type = "private"

\* handle_private_message's scope guard, line 253
InAdminChat(u) == u.chat.id = ADMIN_ID

\* user_id in WHITELIST_IDS, lines 218 and 261
Whitelisted(user) == user["id"] \in WHITELIST_IDS

\* a test of a key that User.to_dict() never has
IsPremiumWrongKey(user) == Has(user, "premium") /\ user["premium"] = TRUE

\* user_dict.get("is_premium") is True, line 222
IsPremium(user) == Has(user, "is_premium") /\ user["is_premium"] = TRUE

\* start, lines 62-63
Start(ok) ==
    /\ pc = "start"
    /\ sent' = Append(sent, ReplyText(update, "Bot is running and monitoring comments.", ok))
    /\ IF ok THEN pc' = "done" /\ UNCHANGED error ELSE Raise("TelegramError")
    /\ UNCHANGED <<alive, update, user_dict, comment_dict, attempt, idx, calls,
                   response, result, log>>
    /\ UNCHANGED probe

\* handle_comment, lines 209-224: scope guard, redaction, bypass rules
HandleComment ==
    /\ pc = "handle_comment"
    /\ \E info \in {get_comment_info(update, FALSE)} :
           IF ~InMonitoredGroup(update)
           THEN /\ pc' = "done"
                /\ UNCHANGED <<user_dict, comment_dict, error, log>>
           ELSE IF ~info.ok
           THEN /\ Raise(info.exc)
                /\ UNCHANGED <<user_dict, comment_dict, log>>
           ELSE /\ user_dict' = info.user_dict
                /\ comment_dict' = info.comment_dict
                /\ UNCHANGED error
                /\ IF Whitelisted(info.user_dict)
                   THEN /\ log' = log \o <<LogLine("info", "Comment"),
                                            LogLine("info", "is whitelisted")>>
                        /\ pc' = "done"
                   ELSE IF IsPremium(info.user_dict)
                   THEN /\ log' = log \o <<LogLine("info", "Comment"),
                                            LogLine("info", "is premium")>>
                        /\ pc' = "done"
                   ELSE /\ log' = Append(log, LogLine("info", "Comment"))
                        /\ pc' = "check_spam"
    /\ UNCHANGED <<alive, update, attempt, idx, calls, response, result, sent>>
    /\ UNCHANGED probe

\* handle_private_message, lines 252-262: scope guard, redaction, and the
\* reply to a whitelisted sender, after which the handler goes on
HandlePrivateMessage(ok) ==
    /\ pc = "handle_private_message"
    /\ \E info \in {get_comment_info(update, TRUE)} :
           IF ~InAdminChat(update)
           THEN /\ ok
                /\ pc' = "done"
                /\ UNCHANGED <<user_dict, comment_dict, error, sent>>
           ELSE IF ~info.ok
           THEN /\ ok
                /\ Raise(info.exc)
                /\ UNCHANGED <<user_dict, comment_dict, sent>>
           ELSE /\ user_dict' = info.user_dict
                /\ comment_dict' = info.comment_dict
                /\ IF Whitelisted(info.user_dict)
                   THEN /\ sent' = Append(sent, ReplyText(update, "User is whitelisted.", ok))
                        /\ IF ok THEN pc' = "check_spam" /\ UNCHANGED error
                           ELSE Raise("TelegramError")
                   ELSE /\ ok
                        /\ pc' = "check_spam"
                        /\ UNCHANGED <<error, sent>>
    /\ UNCHANGED <<alive, update, attempt, idx, calls, response, result, log>>
    /\ UNCHANGED probe

\* retry's wrapper, lines 66-76, around the coroutine function check_spam:
\* the try of line 69 encloses the call of line 70 alone.  Calling an async
\* def only builds the coroutine, which the wrapper returns at once; the body
\* of check_spam runs when the handler awaits it, outside the try.
RaisedInsideWrapperTry == FALSE

\* the handler's `await check_spam(user_dict, comment_dict)`, lines 226 and
\* 264: one iteration of the wrapper's loop, then check_spam's lines 101-106
\* up to the entry of call_model_stack
CheckSpam ==
    /\ pc = "check_spam"
    /\ attempt' = attempt + 1
    /\ idx' = 1
    /\ pc' = "call_model_stack"
    /\ UNCHANGED <<alive, update, user_dict, comment_dict, calls, response,
                   result, sent, error, log>>
    /\ UNCHANGED probe

\* an exception leaves check_spam's body: lines 71-74 catch it only if it was
\* raised inside the wrapper's try
\* a wrapper whose loop has no bound on its attempts
CheckSpamRaisesRetriesForever(exc, lg) ==
    /\ log' = Append(lg, LogLine("error", "Retrying check_spam failed"))
    /\ attempt' = attempt + 1
    /\ idx' = 1
    /\ pc' = "call_model_stack"
    /\ UNCHANGED error

CheckSpamRaises(exc, lg) ==
    IF RaisedInsideWrapperTry /\ attempt < max_retries
    THEN /\ log' = Append(lg, LogLine("error", "Retrying check_spam failed"))
         /\ attempt' = attempt + 1
         /\ idx' = 1
         /\ pc' = "call_model_stack"
         /\ UNCHANGED error
    ELSE /\ log' = lg
         /\ idx' = 0
         /\ Raise(exc)
         /\ UNCHANGED attempt

GenerationCall(model, att, raised, resp) ==
    [model |-> model, attempt |-> att, raised |-> raised, resp |-> resp]

\* a walk that gives up at the first backend that raises
BackendRaisesNoFallback ==
    /\ pc = "call_model_stack"
    /\ calls' = Append(calls, GenerationCall(stack[idx], attempt, TRUE, NoneV))
    /\ CheckSpamRaises("BackendError",
                       Append(log, LogLine("error", "Failed to call " \o stack[idx])))
    /\ UNCHANGED <<alive, update, user_dict, comment_dict, response, result, sent>>
    /\ UNCHANGED probe

\* call_model_stack, lines 80-96: generate_content of stack[idx] raises
BackendRaises ==
    /\ pc = "call_model_stack"
    /\ calls' = Append(calls, GenerationCall(stack[idx], attempt, TRUE, NoneV))
    /\ LET lg == Append(log, LogLine("error", "Failed to call " \o stack[idx]))
       IN  IF idx = Len(stack)
           THEN CheckSpamRaises("BackendError",
                                Append(lg, LogLine("error", "All models failed")))
           ELSE /\ idx' = idx + 1
                /\ log' = lg
                /\ UNCHANGED <<pc, attempt, error>>
    /\ UNCHANGED <<alive, update, user_dict, comment_dict, response, result, sent>>
    /\ UNCHANGED probe

\* call_model_stack, lines 89-90: generate_content of stack[idx] returns a
\* response, which ends the walk
BackendResponds(resp) ==
    /\ pc = "call_model_stack"
    /\ calls' = Append(calls, GenerationCall(stack[idx], attempt, FALSE, resp))
    /\ response' = resp
    /\ idx' = 0
    /\ pc' = "parse"
    /\ UNCHANGED <<alive, update, user_dict, comment_dict, attempt, result,
                   sent, error, log>>
    /\ UNCHANGED probe

\* where check_spam's caller goes on after the await
AfterCheckSpam(u) ==
    IF Dispatch(u) = "handle_comment" THEN "route_comment" ELSE "echo_private"

\* check_spam, lines 107-109
ParseResult ==
    /\ pc = "parse"
    /\ \E p \in {ParseResponse(response)} :
           IF p.ok
           THEN /\ result' = p.v
                /\ pc' = AfterCheckSpam(update)
                /\ UNCHANGED <<attempt, idx, error, log>>
           ELSE /\ CheckSpamRaises(p.exc, log)
                /\ UNCHANGED result
    /\ UNCHANGED <<alive, update, user_dict, comment_dict, calls, response, sent>>
    /\ UNCHANGED probe

\* the content handle_comment gives send_to, lines 233-241
SpamNotification(user, cd, res) ==
    <<"Spam detected", "User", user, "Comment", cd, "Result", res>>

\* a router that swallows a failed notification and forwards all the same
RouteCommentForwardsAnyway(ok) ==
    /\ pc = "route_comment"
    /\ \E f \in {SpamField(result)} :
           IF ~f.ok
           THEN /\ ok
                /\ Raise(f.exc)
                /\ UNCHANGED sent
           ELSE IF Truthy(f.v)
           THEN /\ sent' = Append(sent,
                      SendMessage(ADMIN_ID,
                                  SpamNotification(user_dict, comment_dict, result), ok))
                /\ pc' = "forward"
                /\ UNCHANGED error
           ELSE /\ ok
                /\ pc' = "done"
                /\ UNCHANGED <<sent, error>>
    /\ log' = Append(log, LogLine("info", "Prompt and Result"))
    /\ UNCHANGED <<alive, update, user_dict, comment_dict, attempt, idx, calls,
                   response, result>>
    /\ UNCHANGED probe

\* handle_comment, lines 227-242: the verdict and the notification
RouteComment(ok) ==
    /\ pc = "route_comment"
    /\ \E f \in {SpamField(result)} :
           IF ~f.ok
           THEN /\ ok
                /\ Raise(f.exc)
                /\ UNCHANGED sent
           ELSE IF Truthy(f.v)
           THEN /\ sent' = Append(sent,
                      SendMessage(ADMIN_ID,
                                  SpamNotification(user_dict, comment_dict, result), ok))
                /\ IF ok THEN pc' = "forward" /\ UNCHANGED error
                   ELSE Raise("TelegramError")
           ELSE /\ ok
                /\ pc' = "done"
                /\ UNCHANGED <<sent, error>>
    /\ log' = Append(log, LogLine("info", "Prompt and Result"))
    /\ UNCHANGED <<alive, update, user_dict, comment_dict, attempt, idx, calls,
                   response, result>>
    /\ UNCHANGED probe

\* handle_comment, lines 243-247
Forward(ok) ==
    /\ pc = "forward"
    /\ sent' = Append(sent,
           ForwardMessage(ADMIN_ID, update.chat.id, update.message_id, ok))
    /\ IF ok THEN pc' = "done" /\ UNCHANGED error ELSE Raise("TelegramError")
    /\ UNCHANGED <<alive, update, user_dict, comment_dict, attempt, idx, calls,
                   response, result, log>>
    /\ UNCHANGED probe

\* the content handle_private_message gives send_to, lines 269-280
PrivateEcho(user, cd, res) ==
    <<"User", user, "Comment", cd, "Prompt", "---", Prompt(cd), "---",
      "Result", res>>

\* an echo made for spam verdicts only, as the group flow's notification is
EchoPrivateOnlySpam(ok) ==
    /\ pc = "echo_private"
    /\ \E f \in {SpamField(result)} :
           IF f.ok /\ Truthy(f.v)
           THEN /\ sent' = Append(sent,
                      SendMessage(update.chat.id,
                                  PrivateEcho(user_dict, comment_dict, result), ok))
                /\ IF ok THEN pc' = "done" /\ UNCHANGED error
                   ELSE Raise("TelegramError")
           ELSE /\ ok
                /\ pc' = "done"
                /\ UNCHANGED <<sent, error>>
    /\ UNCHANGED <<alive, update, user_dict, comment_dict, attempt, idx, calls,
                   response, result, log>>
    /\ UNCHANGED probe

\* handle_private_message, lines 266-281
EchoPrivate(ok) ==
    /\ pc = "echo_private"
    /\ sent' = Append(sent,
           SendMessage(update.chat.id,
                       PrivateEcho(user_dict, comment_dict, result), ok))
    /\ IF ok THEN pc' = "done" /\ UNCHANGED error ELSE Raise("TelegramError")
    /\ UNCHANGED <<alive, update, user_dict, comment_dict, attempt, idx, calls,
                   response, result, log>>
    /\ UNCHANGED probe

\* error_handler, lines 293-300: the update with its text cut to 200
UpdateDict(u) ==
    IF u.edited THEN [edited_message |-> [text |-> u.text]]
    ELSE [message |-> [text |-> truncate(u.text, 200)]]

\* the content error_handler gives send_to, lines 305-311
ErrorReport(u, exc) ==
    <<"Exception", "Update", UpdateDict(u), "Traceback", [traceback |-> exc]>>

\* error_handler, lines 284-316: send_to is awaited unguarded, so a failed
\* send leaves error_handler before line 314 is reached
ErrorHandler(ok) ==
    /\ pc = "error_handler"
    /\ sent' = Append(sent, SendMessage(ADMIN_ID, ErrorReport(update, error), ok))
    /\ IF ~ok
       THEN /\ log' = Append(Append(log,
                        LogLine("error", "Exception while handling an update")),
                        LogLine("error", "error_handler raised TelegramError"))
            /\ pc' = "done"
            /\ UNCHANGED alive
       ELSE IF IsTelegramError(error)
       THEN /\ log' = Append(Append(log,
                        LogLine("error", "Exception while handling an update")),
                        LogLine("error", "Telegram error received, killing process."))
            /\ pc' = "exited"
            /\ alive' = FALSE
       ELSE /\ log' = Append(log, LogLine("error", "Exception while handling an update"))
            /\ pc' = "done"
            /\ UNCHANGED alive
    /\ UNCHANGED <<update, user_dict, comment_dict, attempt, idx, calls,
                   response, result, error>>
    /\ UNCHANGED probe

\* main, lines 335-336, and run_health_check_server, lines 327-330: the server
\* runs serve_forever in a daemon thread of its own, so it accepts a GET
\* while the process lives, whatever the polling loop is doing
GetRequest ==
    /\ alive
    /\ probe' = [state |-> "pending", status |-> 0, content_type |-> "", body |-> ""]
    /\ UNCHANGED <<alive, pc, update, user_dict, comment_dict, attempt, idx,
                   calls, response, result, sent, error, log>>

\* the answer HealthCheckHandler.do_GET writes, lines 321-324
HealthReply ==
    [state |-> "answered", status |-> 200, content_type |-> "text/plain",
     body |-> "OK"]

\* a server that shared the polling loop: it would answer between updates only
do_GET_OnEventLoop ==
    /\ alive
    /\ pc = "idle"
    /\ probe.state = "pending"
    /\ probe' = HealthReply
    /\ UNCHANGED <<alive, pc, update, user_dict, comment_dict, attempt, idx,
                   calls, response, result, sent, error, log>>

\* HealthCheckHandler.do_GET, lines 320-324: reads nothing of the bot
do_GET ==
    /\ alive
    /\ probe.state = "pending"
    /\ probe' = HealthReply
    /\ UNCHANGED <<alive, pc, update, user_dict, comment_dict, attempt, idx,
                   calls, response, result, sent, error, log>>

Next ==
    \/ \E u \in Updates : Receive(u)
    \/ \E ok \in BOOLEAN : Start(ok)
    \/ HandleComment
    \/ \E ok \in BOOLEAN : HandlePrivateMessage(ok)
    \/ CheckSpam
    \/ BackendRaises
    \/ \E resp \in Responses : BackendResponds(resp)
    \/ ParseResult
    \/ \E ok \in BOOLEAN : RouteComment(ok)
    \/ \E ok \in BOOLEAN : Forward(ok)
    \/ \E ok \in BOOLEAN : EchoPrivate(ok)
    \/ \E ok \in BOOLEAN : ErrorHandler(ok)
    \/ Return
    \/ GetRequest
    \/ do_GET

Spec == Init /\ [][Next]_vars

\* The handler's coroutine is run on by the event loop once check_spam is
\* awaited (lines 226, 264), model.generate_content (line 87) returns or
\* raises under the timeouts of its client, and the parsing of lines 106-108
\* follows without suspension.
FairSpec ==
    /\ Spec
    /\ WF_vars(CheckSpam)
    /\ WF_vars(BackendRaises \/ \E resp \in Responses : BackendResponds(resp))
    /\ WF_vars(ParseResult)

-----------------------------------------------------------------------------
(* get_comment_info on its own, over messages whose texts reach past the   *)
(* caps of lines 163, 169 and 184 and whose post may be dated after the    *)
(* comment                                                                 *)

\* longest comment text, one character past the cap of line 184
MaxTextLen == 1001

\* longest caption or text of a post, one character past the cap of line 163
MaxPostLen == 501

\* a post dated after the comment that answers it
LatePostDate == CommentDate + 3

RedactUpdates ==
    [chat : {[id |-> TARGET_GROUP_ID, type |-> "supergroup"]},
     command : {FALSE},
     edited : BOOLEAN,
     message_id : {10},
     from_id : {STRANGER_ID},
     is_premium : {FALSE},
     sender_chat : {0, CHANNEL_ID},
     forward_origin : {NoOrigin, UserOrigin(EXTRA_WHITELIST_ID)},
     date : {CommentDate},
     text : {-1, 0, ShortLen, MaxTextLen - 1, MaxTextLen},
     reply_to_message :
        {NoReply} \cup
        {Reply(d, c, t) : d \in {PostDate, LatePostDate},
                          c \in {-1, ShortLen, MaxPostLen - 1, MaxPostLen},
                          t \in {-1, ShortLen, MaxPostLen - 1, MaxPostLen}}]

RedactInit ==
    /\ alive = TRUE
    /\ pc = "redact"
    /\ update \in RedactUpdates
    /\ user_dict = NoneV
    /\ comment_dict = NoneV
    /\ attempt = 0
    /\ idx = 0
    /\ calls = <<>>
    /\ response = NoneV
    /\ result = NoneV
    /\ sent = <<>>
    /\ error = NoError
    /\ log = <<>>
    /\ probe = NoProbe

\* one call of get_comment_info, lines 118-185
Redact(treat_forward_origin_as_sender) ==
    /\ pc = "redact"
    /\ \E info \in {get_comment_info(update, treat_forward_origin_as_sender)} :
          IF info.ok
          THEN /\ user_dict' = info.user_dict
               /\ comment_dict' = info.comment_dict
               /\ pc' = "redacted"
               /\ UNCHANGED error
          ELSE /\ Raise(info.exc)
               /\ UNCHANGED <<user_dict, comment_dict>>
    /\ UNCHANGED <<alive, update, attempt, idx, calls, response, result, sent,
                   log, probe>>

RedactNext == \E treat \in BOOLEAN : Redact(treat)

SpecRedact == RedactInit /\ [][RedactNext]_vars

-----------------------------------------------------------------------------
(* Vocabulary of the properties                                            *)

GroupFlow == update # NoUpdate /\ Dispatch(update) = "handle_comment"

PrivateFlow == update # NoUpdate /\ Dispatch(update) = "handle_private_message"

\* check_spam was called, or a backend was
ClassifierInvoked == attempt > 0 \/ calls # <<>>

\* the verdicts the system instruction asks for, by the text that states them
ExpectedVerdict(text) ==
    CASE text = TextNotSpam -> JDict([spam |-> JBool(FALSE)])
      [] text \in {TextSpam, TextSpamCapital} ->
            JDict([spam |-> JBool(TRUE), why |-> JStr("bait link")])

WellFormedResponse(resp) ==
    resp.t = "text" /\ resp.text \in {TextNotSpam, TextSpam, TextSpamCapital}

\* result is an object whose spam field is the boolean b
VerdictIs(b) ==
    /\ result # NoneV
    /\ result.t = "dict"
    /\ Has(result.d, "spam")
    /\ result.d["spam"] = JBool(b)

IsLast(model) == model = stack[Len(stack)]

StackIndex(model) == CHOOSE i \in DOMAIN stack : stack[i] = model

\* C1: when every backend fails on every call, the failure reaches the caller
\* only after 3 walks of the stack, 3*N generation calls.
C1_ThreeWalksBeforeRaise ==
    (/\ GroupFlow
     /\ error = "BackendError"
     /\ \A i \in DOMAIN calls : calls[i].raised)
    => /\ Len(calls) = max_retries * Len(stack)
       /\ attempt = max_retries

\* C2: an in-scope event whose resolved sender id is in the whitelist causes
\* no check_spam call and no backend call, in the group flow and in the
\* private flow.
C2_WhitelistNeverClassified ==
    (Has(user_dict, "id") /\ user_dict["id"] \in WHITELIST_IDS)
    => ~ClassifierInvoked

\* C3: a response that does not parse to an object with a boolean spam field
\* ends the run of the group flow in an error given to the error handler,
\* never in a silent end and never in a notification.
C3_MalformedIsAnError ==
    (/\ GroupFlow
     /\ response # NoneV
     /\ ~WellFormedResponse(response)
     /\ pc \in {"forward", "done", "exited"})
    => /\ error # NoError
       /\ ~\E i \in DOMAIN sent :
               /\ sent[i].op = "send_message"
               /\ sent[i].content[1] = "Spam detected"

\* C4 as stated: every failure of a backend that is not the last one, a raised
\* error or a malformed or empty response, is followed by a generation call
\* to the next backend.
C4_AnyFailureAdvances ==
    (idx = 0 /\ pc # "parse")
    => \A i \in DOMAIN calls :
          (/\ ~IsLast(calls[i].model)
           /\ (calls[i].raised \/ ~WellFormedResponse(calls[i].resp)))
          => /\ i + 1 \in DOMAIN calls
             /\ calls[i + 1].model = stack[StackIndex(calls[i].model) + 1]

\* C4 as amended: an error raised by the generation call of a backend that is
\* not the last one is logged and followed by a generation call to the next
\* backend of the stack (already made, or the only step the walk can take);
\* only an error raised by the last backend leaves the stack walk.
C4_RaisedFailureAdvances ==
    /\ \A i \in DOMAIN calls :
          (calls[i].raised /\ ~IsLast(calls[i].model))
          => /\ \E j \in DOMAIN log :
                   log[j] = LogLine("error", "Failed to call " \o calls[i].model)
             /\ IF i < Len(calls)
                THEN calls[i + 1].model = stack[StackIndex(calls[i].model) + 1]
                ELSE /\ pc = "call_model_stack"
                     /\ idx = StackIndex(calls[i].model) + 1
                     /\ error = NoError
    /\ error = "BackendError"
       => /\ calls # <<>>
          /\ calls[Len(calls)].raised
          /\ IsLast(calls[Len(calls)].model)

C4_Witness ==
    /\ Len(calls) = 2
    /\ calls[1].raised
    /\ calls[1].model = stack[1]
    /\ calls[2].model = stack[2]

\* C5: backend 1 fails and backend 2 succeeds: the backends are called in
\* stack order, once each, nothing is called after the success, and the
\* classifier returns the parsed output of backend 2.
C5_OneFallback ==
    (/\ Len(calls) >= 2
     /\ calls[1].raised
     /\ ~calls[2].raised
     /\ WellFormedResponse(calls[2].resp))
    => /\ Len(calls) = 2
       /\ calls[1].model = stack[1]
       /\ calls[2].model = stack[2]
       /\ pc # "call_model_stack"
       /\ error \notin {"BackendError", "JSONDecodeError", "ValueError"}
       /\ pc # "parse" => result = ExpectedVerdict(calls[2].resp.text)

C5_Witness ==
    /\ Len(calls) = 2
    /\ calls[1].raised
    /\ calls[2].resp = TextResponse(TextSpamCapital)
    /\ pc = "route_comment"
    /\ result = ExpectedVerdict(TextSpam)

\* C6: in the group flow a verdict with spam true makes the router send one
\* notification holding the sender record, the comment record and the verdict
\* to the admin, and only after that send has succeeded forward the original
\* message, by its chat and message id, to the admin.
C6_NotifyThenForward ==
    (GroupFlow /\ VerdictIs(TRUE) /\ pc # "route_comment")
    => /\ Len(sent) >= 1
       /\ sent[1].op = "send_message"
       /\ sent[1].chat_id = ADMIN_ID
       /\ sent[1].content = SpamNotification(user_dict, comment_dict, result)
       /\ \A i \in DOMAIN sent :
             sent[i].op = "forward_message"
             => /\ i = 2
                /\ sent[1].ok
                /\ sent[i].chat_id = ADMIN_ID
                /\ sent[i].content = [from_chat_id |-> update.chat.id,
                                      message_id |-> update.message_id]
       /\ (pc = "done" /\ error = NoError)
          => /\ Len(sent) = 2
             /\ sent[2].op = "forward_message"
             /\ sent[2].ok
       /\ ~sent[1].ok => \A i \in DOMAIN sent : sent[i].op # "forward_message"

C6_Witness ==
    /\ GroupFlow
    /\ VerdictIs(TRUE)
    /\ pc = "done"
    /\ error = NoError
    /\ Len(sent) = 2
    /\ sent[2].op = "forward_message"

\* C7: in the group flow a verdict with spam false makes the run send
\* nothing: no notification and no forward.
C7_NotSpamSendsNothing ==
    (GroupFlow /\ VerdictIs(FALSE))
    => /\ sent = <<>>
       /\ error = NoError
       /\ pc \in {"route_comment", "done"}

C7_Witness == GroupFlow /\ VerdictIs(FALSE) /\ pc = "done"

\* C8: in the group flow an in-scope event whose sender has is_premium true
\* causes no classifier invocation and no notification, whether or not the
\* sender id is in the whitelist.
C8_PremiumBypasses ==
    (/\ GroupFlow
     /\ update.chat.id = TARGET_GROUP_ID
     /\ ~update.edited
     /\ update.sender_chat = 0
     /\ update.is_premium)
    => /\ ~ClassifierInvoked
       /\ sent = <<>>
       /\ pc \in {"handle_comment", "done"}

C8_Witness ==
    /\ GroupFlow
    /\ update.chat.id = TARGET_GROUP_ID
    /\ update.sender_chat = 0
    /\ update.from_id = STRANGER_ID
    /\ update.is_premium
    /\ pc = "done"
    /\ log = <<LogLine("info", "Comment"), LogLine("info", "is premium")>>

\* C9: an event given to the group handler outside the monitored group, or to
\* the private handler outside the admin's private chat, is ignored: no
\* redaction, no classifier invocation, no outgoing message.
C9_OutOfScopeIgnored ==
    (\/ GroupFlow /\ update.chat.id # TARGET_GROUP_ID
     \/ PrivateFlow /\ update.chat.id # ADMIN_ID)
    => /\ user_dict = NoneV
       /\ comment_dict = NoneV
       /\ ~ClassifierInvoked
       /\ sent = <<>>
       /\ error = NoError
       /\ pc \in {"handle_comment", "handle_private_message", "done"}

C9_Witness ==
    /\ PrivateFlow
    /\ update.chat.id = STRANGER_ID
    /\ update.from_id = STRANGER_ID
    /\ pc = "done"

\* C10: whenever the error handler has handled a TelegramError the process is
\* terminated, whether or not the notification to the admin could be sent.
C10_TelegramErrorTerminates ==
    (IsTelegramError(error) /\ pc \notin {"error_handler"})
    => ~alive

\* the failures of redaction and classification, by the exception that
\* carries them: malformed model output, a blocked or failing backend stack,
\* a sender that cannot be resolved
ClassificationFailures ==
    {"JSONDecodeError", "ValueError", "TypeError", "KeyError", "BackendError",
     "AttributeError"}

\* the exception of a failed send left error_handler
ErrorHandlerRaised ==
    \E i \in DOMAIN log :
        log[i] = LogLine("error", "error_handler raised TelegramError")

\* C11: a failure of the send that error_handler makes never propagates out
\* of error_handler.
C11_ReporterFailureContained == ~ErrorHandlerRaised

\* C12: the process is terminated only for a TelegramError; after any
\* classification-layer failure the report with the truncated update was
\* given to send_message for the admin, the process lives and the next
\* update can be taken.
C12_OnlyTransportTerminates ==
    /\ ~alive => IsTelegramError(error)
    /\ (error \in ClassificationFailures /\ pc # "error_handler")
       => /\ alive
          /\ pc = "done"
          /\ sent # <<>>
          /\ sent[Len(sent)].op = "send_message"
          /\ sent[Len(sent)].chat_id = ADMIN_ID
          /\ sent[Len(sent)].content = ErrorReport(update, error)
          /\ ENABLED Return

C12_Witness ==
    /\ GroupFlow
    /\ error = "JSONDecodeError"
    /\ pc = "done"
    /\ alive
    /\ sent[Len(sent)].ok

\* the reply_to_message of the redacted comment record
RedactedReply == comment_dict["reply_to_message"]

\* C13: after redaction the comment's text is at most 1000 characters long
\* and the caption and the text of the post at most 500.
C13_TextsWithinCaps ==
    pc = "redacted"
    => /\ Has(comment_dict, "text") => comment_dict["text"] <= 1000
       /\ Has(comment_dict, "reply_to_message")
          => \A k \in DOMAIN RedactedReply \cap {"caption", "text"} :
                RedactedReply[k] <= 500

\* C14: comment_delay_seconds is in the record exactly when the comment has
\* a post with its date next to its own date, it is then the comment's date
\* minus the post's date, and redaction fails for no message but one whose
\* sender cannot be resolved.
C14_DelayIffBothDates ==
    /\ pc = "redacted"
       => /\ Has(comment_dict, "comment_delay_seconds")
              <=> update.reply_to_message.t # "none"
          /\ update.reply_to_message.t # "none"
             => comment_dict["comment_delay_seconds"]
                    = update.date - update.reply_to_message.date
    /\ pc = "error_handler" => update.edited

C14_Witness ==
    /\ pc = "redacted"
    /\ Has(comment_dict, "comment_delay_seconds")
    /\ comment_dict["comment_delay_seconds"] < 0

\* C15: the post of a redacted comment keeps its date and its excerpt, the
\* text when the post has a text and otherwise the caption, and nothing else.
C15_ReplyKeepsExcerptAndDate ==
    (pc = "redacted" /\ update.reply_to_message.t # "none")
    => DOMAIN RedactedReply =
          {"date"} \cup (IF update.reply_to_message.text >= 0 THEN {"text"}
                         ELSE IF update.reply_to_message.caption >= 0
                         THEN {"caption"} ELSE {})

\* C16: in the private flow, once check_spam has returned a verdict, the
\* sender record, the comment record, the prompt and the verdict are given
\* to send_message for the chat the message came from, whatever the verdict.
C16_VerdictEchoed ==
    (PrivateFlow /\ result # NoneV /\ pc # "echo_private")
    => \E i \in DOMAIN sent :
          /\ sent[i].op = "send_message"
          /\ sent[i].chat_id = update.chat.id
          /\ sent[i].content =
                <<"User", user_dict, "Comment", comment_dict, "Prompt", "---",
                  Prompt(comment_dict), "---", "Result", result>>

C16_Witness ==
    /\ PrivateFlow
    /\ VerdictIs(FALSE)
    /\ pc = "done"
    /\ sent[Len(sent)].ok
    /\ sent[Len(sent)].content[10] = result

\* the variables of the polling loop and its handlers
pipeline ==
    <<alive, pc, update, user_dict, comment_dict, attempt, idx, calls,
      response, result, sent, error, log>>

\* C17: while the process lives the health check server takes a GET and
\* answers a pending one wherever the handlers stand, every answer is status
\* 200 with body OK, and no step changes both the probe and a variable of
\* the handlers.
C17_ProbeIndependent ==
    /\ [](/\ alive => ENABLED GetRequest
          /\ (alive /\ probe.state = "pending") => ENABLED do_GET
          /\ probe.state = "answered"
             => probe.status = 200 /\ probe.body = "OK")
    /\ [][probe' # probe => UNCHANGED pipeline]_vars

C17_Witness ==
    /\ pc = "call_model_stack"
    /\ attempt = 1
    /\ probe = HealthReply

\* the identity a message was posted as: its sender_chat, else its from_user
PostedAsId(u) == IF u.sender_chat # 0 THEN u.sender_chat ELSE u.from_id

\* C18: the sender get_comment_info returns is the forward origin's user
\* only under the flag of the private flow and when the origin names a user;
\* otherwise it is the sender_chat when the message has one, otherwise the
\* from_user.  In the group flow the forward origin is never the sender.
C18_SenderPriority ==
    user_dict # NoneV
    => /\ GroupFlow => user_dict["id"] = PostedAsId(update)
       /\ PrivateFlow
          => user_dict["id"] =
                IF update.forward_origin.t = "user"
                THEN update.forward_origin.id
                ELSE PostedAsId(update)
       /\ Has(user_dict, "type")
          <=> /\ update.sender_chat # 0
              /\ user_dict["id"] = update.sender_chat

C18_Witness ==
    /\ GroupFlow
    /\ update.forward_origin = UserOrigin(EXTRA_WHITELIST_ID)
    /\ update.sender_chat = CHANNEL_ID
    /\ user_dict # NoneV
    /\ user_dict["id"] = CHANNEL_ID

\* C19: after get_comment_info the from_user of the comment record has
\* neither id nor is_bot, the sender's id is nowhere in the comment record,
\* and the returned sender record still has its id.
C19_SenderIdOnlyOutsideRecord ==
    comment_dict # NoneV
    => /\ ~Has(comment_dict["from_user"], "id")
       /\ ~Has(comment_dict["from_user"], "is_bot")
       /\ Has(user_dict, "id")
       /\ ~(/\ Has(comment_dict, "sender_chat")
            /\ comment_dict["sender_chat"]["id"] = user_dict["id"])

\* the part of C19 on the two sender records alone
C19_SnapshotStrippedRecordKept ==
    comment_dict # NoneV
    => /\ ~Has(comment_dict["from_user"], "id")
       /\ ~Has(comment_dict["from_user"], "is_bot")
       /\ Has(user_dict, "id")
       /\ user_dict["id"] =
             IF PrivateFlow /\ update.forward_origin.t = "user"
             THEN update.forward_origin.id
             ELSE PostedAsId(update)

\* check_spam has ended: with a parsed result, or with an exception raised
ClassificationEnded ==
    \/ pc \in {"route_comment", "echo_private"} /\ result # NoneV
    \/ pc = "error_handler" /\ error \in ClassificationFailures

\* C20: the generation calls made for one comment are made one after the
\* other, attempt by attempt and down the stack within an attempt; there are
\* never more than max_retries * N of them; and a classification that has
\* begun ends with a parsed result or with a raised failure.
C20_ClassificationTerminates ==
    /\ [](/\ Len(calls) <= max_retries * Len(stack)
          /\ attempt <= max_retries
          /\ \A i, j \in DOMAIN calls :
                i < j => \/ calls[i].attempt < calls[j].attempt
                         \/ /\ calls[i].attempt = calls[j].attempt
                            /\ StackIndex(calls[i].model)
                                  < StackIndex(calls[j].model))
    /\ (pc = "check_spam" ~> ClassificationEnded)

C20_Witness ==
    /\ pc = "error_handler"
    /\ error = "BackendError"
    /\ Len(calls) = Len(stack)
    /\ \A i \in DOMAIN calls : calls[i].raised

====
